---- MODULE Spec2Model ----
(***************************************************************************)
(* Model of collector/cluster_health.go: the ClusterHealth collector of    *)
(* elasticsearch_exporter.  Describe lists the fixed descriptors, Collect  *)
(* fetches /_cluster/health once, decodes it, emits one sample per         *)
(* descriptor and updates five meta-metrics shared by all calls.           *)
(*                                                                         *)
(* Collect is modelled statement by statement, one step per access to a    *)
(* shared meta-metric, so that overlapping calls interleave exactly where  *)
(* the Go scheduler may interleave them.  Spec lets the caller run one     *)
(* call at a time; SpecConc lets calls overlap.                            *)
(***************************************************************************)
EXTENDS Integers, Sequences, FiniteSets, TLC

\* ------------------------------------------------------------------ bounds
MaxScrapes == 3      \* Collect calls the single caller of Spec makes
MaxConcScrapes == 2  \* Collect calls the callers of SpecConc make between them
MaxDescribes == 2    \* Describe calls in one behaviour
MaxTime == 1         \* the wall clock runs from 0 to MaxTime
MaxCount == 1        \* scale of the integer fields of a response body

\* The goroutines that may call into the collector.
Callers == {1, 2}

\* ------------------------------------------------------------ the record
colors == <<"green", "yellow", "red">>

IntFields ==
    <<"ActivePrimaryShards", "ActiveShards", "DelayedUnassignedShards",
      "InitializingShards", "NumberOfDataNodes", "NumberOfInFlightFetch",
      "NumberOfNodes", "NumberOfPendingTasks", "RelocatingShards",
      "UnassignedShards">>

StructFields == {"ClusterName", "Status", "TimedOut"} \cup {IntFields[i] : i \in 1..Len(IntFields)}

\* The Go type of a field of clusterHealthResponse, as the JSON type it accepts.
FieldType(f) ==
    CASE f \in {"ClusterName", "Status"} -> "string"
      [] f = "TimedOut" -> "bool"
      [] OTHER -> "number"

\* The JSON key of a field of clusterHealthResponse.
JSONKey(f) ==
    CASE f = "ClusterName" -> "cluster_name"
      [] f = "Status" -> "status"
      [] f = "TimedOut" -> "timed_out"
      [] f = "ActivePrimaryShards" -> "active_primary_shards"
      [] f = "ActiveShards" -> "active_shards"
      [] f = "DelayedUnassignedShards" -> "delayed_unassigned_shards"
      [] f = "InitializingShards" -> "initializing_shards"
      [] f = "NumberOfDataNodes" -> "number_of_data_nodes"
      [] f = "NumberOfInFlightFetch" -> "number_of_in_flight_fetch"
      [] f = "NumberOfNodes" -> "number_of_nodes"
      [] f = "NumberOfPendingTasks" -> "number_of_pending_tasks"
      [] f = "RelocatingShards" -> "relocating_shards"
      [] f = "UnassignedShards" -> "unassigned_shards"

\* var chr clusterHealthResponse: every field holds its zero value.
ZeroRecord ==
    [f \in StructFields |->
        CASE FieldType(f) = "string" -> ""
          [] FieldType(f) = "bool" -> FALSE
          [] OTHER -> 0]

\* ------------------------------------------------------------ JSON values
JStr(s) == [t |-> "string", s |-> s, n |-> 0, b |-> FALSE]
JNum(n) == [t |-> "number", s |-> "", n |-> n, b |-> FALSE]
JBool(b) == [t |-> "bool", s |-> "", n |-> 0, b |-> b]
JNull == [t |-> "null", s |-> "", n |-> 0, b |-> FALSE]

JValue(jv) ==
    CASE jv.t = "string" -> jv.s
      [] jv.t = "number" -> jv.n
      [] jv.t = "bool" -> jv.b

\* ------------------------------------------------------- response bodies
JSONKeys == {JSONKey(f) : f \in StructFields}

IndexOf(f) == CHOOSE i \in 1..Len(IntFields) : IntFields[i] = f

\* A JSON value the decoder cannot store in field f.
Mismatch(f) == IF FieldType(f) = "string" THEN JNum(7) ELSE JStr("oops")

\* A well-formed value for field f: the k-th multiple of the field's index, so
\* that the ten integer fields carry ten different values when k > 0.
GoodValue(f, name, status, to, k) ==
    CASE f = "ClusterName" -> JStr(name)
      [] f = "Status" -> JStr(status)
      [] f = "TimedOut" -> JBool(to)
      [] OTHER -> JNum(k * IndexOf(f))

\* The JSON object of a response body, as the map from its keys to its values.
\* Field bad, if any, carries badValue instead of its well-formed value.
MkObject(name, status, to, k, bad, badValue) ==
    [key \in JSONKeys |->
        LET f == CHOOSE g \in StructFields : JSONKey(g) = key
        IN  IF f = bad THEN badValue ELSE GoodValue(f, name, status, to, k)]

ClusterNames == {"es1"}
Statuses == {"green", "yellow", "red", "purple"}
BadFields == {"Status", "TimedOut", "ActiveShards"}

GoodObjects ==
    {MkObject(name, status, to, k, "none", JNull) :
        name \in ClusterNames, status \in Statuses, to \in BOOLEAN, k \in 0..MaxCount}

\* Objects with one null field: the decoder skips it without an error.
NullObjects ==
    {MkObject("es1", "green", TRUE, MaxCount, bad, JNull) : bad \in BadFields}

\* Objects with one field of the wrong JSON type.
MismatchObjects ==
    {MkObject(name, status, TRUE, MaxCount, bad, Mismatch(bad)) :
        name \in ClusterNames, status \in {"green", "red"}, bad \in BadFields}

AnObject == MkObject("es1", "green", FALSE, 0, "none", JNull)

\* What the HTTP client hands back for one GET: a transport error, or a status
\* code and a body.  syntax is "object" for a well-formed JSON object,
\* "nonobject" for another well-formed JSON value, "malformed" otherwise (an
\* empty or truncated body included).
Response(err, code, syntax, obj) == [err |-> err, code |-> code, syntax |-> syntax, obj |-> obj]

StatusOK == 200

Responses ==
    {Response(TRUE, 0, "malformed", AnObject)}
    \cup {Response(FALSE, code, "object", AnObject) : code \in {404, 500}}
    \cup {Response(FALSE, StatusOK, syntax, AnObject) : syntax \in {"malformed", "nonobject"}}
    \cup {Response(FALSE, StatusOK, "object", obj) :
            obj \in GoodObjects \cup NullObjects \cup MismatchObjects}

\* The responses the overlapping calls of SpecConc draw from: one of each
\* failure kind, a body that fails to decode half way, and a success.
ConcResponses ==
    {Response(TRUE, 0, "malformed", AnObject),
     Response(FALSE, 500, "object", AnObject),
     Response(FALSE, StatusOK, "malformed", AnObject),
     Response(FALSE, StatusOK, "object", MkObject("es1", "green", TRUE, MaxCount, "ActiveShards", Mismatch("ActiveShards"))),
     Response(FALSE, StatusOK, "object", MkObject("es1", "red", FALSE, MaxCount, "none", JNull))}

\* ------------------------------------------------------------------ decode
\* json.Decoder.Decode(&chr) on a well-formed object: a key whose value has the
\* field's type is stored, a null is skipped, and a value of another type is
\* skipped with the error kept for the end, the remaining keys still decoded.
Unmarshal(obj, chr) ==
    [f \in StructFields |->
        IF obj[JSONKey(f)].t = FieldType(f) THEN JValue(obj[JSONKey(f)]) ELSE chr[f]]

UnmarshalError(obj) ==
    \E f \in StructFields : obj[JSONKey(f)].t \notin {FieldType(f), "null"}

\* The record Decode leaves in chr and whether it returns an error.
Decode(resp, chr) ==
    CASE resp.syntax = "malformed" -> [chr |-> chr, err |-> TRUE]
      [] resp.syntax = "nonobject" -> [chr |-> chr, err |-> TRUE]
      [] OTHER -> [chr |-> Unmarshal(resp.obj, chr), err |-> UnmarshalError(resp.obj)]

\* Mutant: the status code is not looked at, the body is decoded whatever it is.
fetchAndDecodeClusterHealth_anyStatus(resp) ==
    LET chr == ZeroRecord
    IN  IF resp.err THEN [chr |-> chr, err |-> TRUE, gets |-> 1]
        ELSE LET d == Decode(resp, chr)
             IN  [chr |-> d.chr, err |-> d.err, gets |-> 1]

\* Mutant: a request that could not be completed or was refused is tried again.
fetchAndDecodeClusterHealth_retry(resp) ==
    LET chr == ZeroRecord
    IN  IF resp.err THEN [chr |-> chr, err |-> TRUE, gets |-> 2]
        ELSE IF resp.code # StatusOK THEN [chr |-> chr, err |-> TRUE, gets |-> 2]
        ELSE LET d == Decode(resp, chr)
             IN  [chr |-> d.chr, err |-> d.err, gets |-> 1]

\* fetchAndDecodeClusterHealth, given what c.client.Get returns: the record and
\* the error it returns, and the number of GET requests it issued.
fetchAndDecodeClusterHealth(resp) ==
    LET chr == ZeroRecord
    IN  IF resp.err THEN [chr |-> chr, err |-> TRUE, gets |-> 1]
        ELSE IF resp.code # StatusOK THEN [chr |-> chr, err |-> TRUE, gets |-> 1]
        ELSE LET d == Decode(resp, chr)
             IN  IF d.err THEN [chr |-> d.chr, err |-> TRUE, gets |-> 1]
                 ELSE [chr |-> d.chr, err |-> FALSE, gets |-> 1]

\* How one GET ended, read off the response alone: the request could not be
\* completed, the status is not 200, the body could not be decoded, or none of
\* these.
Outcome(resp) ==
    IF resp.err THEN "transport"
    ELSE IF resp.code # 200 THEN "status"
    ELSE IF resp.syntax # "object" THEN "decode"
    ELSE IF \E key \in DOMAIN resp.obj :
                \E f \in StructFields :
                    /\ JSONKey(f) = key
                    /\ resp.obj[key].t # "null"
                    /\ resp.obj[key].t # FieldType(f)
         THEN "decode"
    ELSE "ok"

\* What a caller's GET received: how it ended and, when it ended "ok", the
\* cluster_name and status strings of the body ("" for a null).
StringOf(jv) == IF jv.t = "string" THEN jv.s ELSE ""

Received(resp) ==
    [outcome |-> Outcome(resp),
     cluster |-> IF Outcome(resp) = "ok" THEN StringOf(resp.obj["cluster_name"]) ELSE "",
     status |-> IF Outcome(resp) = "ok" THEN StringOf(resp.obj["status"]) ELSE ""]

NothingYet == [outcome |-> "none", cluster |-> "", status |-> ""]

\* ------------------------------------------------------- descriptor set
\* c.metrics: the name of each scalar descriptor and the field its Value reads.
metrics ==
    <<[Desc |-> "active_primary_shards", Field |-> "ActivePrimaryShards"],
      [Desc |-> "active_shards", Field |-> "ActiveShards"],
      [Desc |-> "delayed_unassigned_shards", Field |-> "DelayedUnassignedShards"],
      [Desc |-> "initializing_shards", Field |-> "InitializingShards"],
      [Desc |-> "number_of_data_nodes", Field |-> "NumberOfDataNodes"],
      [Desc |-> "number_of_in_flight_fetch", Field |-> "NumberOfInFlightFetch"],
      [Desc |-> "number_of_nodes", Field |-> "NumberOfNodes"],
      [Desc |-> "number_of_pending_tasks", Field |-> "NumberOfPendingTasks"],
      [Desc |-> "relocating_shards", Field |-> "RelocatingShards"],
      [Desc |-> "timed_out", Field |-> "TimedOut"],
      [Desc |-> "unassigned_shards", Field |-> "UnassignedShards"]>>

statusMetric == [Desc |-> "status"]

\* metric.Value(clusterHealth): float64 of an integer field, 1 or 0 for timed_out.
MetricValue(metric, clusterHealth) ==
    IF metric.Field = "TimedOut"
    THEN (IF clusterHealth.TimedOut THEN 1 ELSE 0)
    ELSE clusterHealth[metric.Field]

\* Mutant: 1 for every color as soon as the record has a status.
StatusValue_anyColor(clusterHealth, color) ==
    IF clusterHealth.Status # "" THEN 1 ELSE 0

\* statusMetric.Value(clusterHealth, color)
StatusValue(clusterHealth, color) ==
    IF clusterHealth.Status = color THEN 1 ELSE 0

Sample(desc, value, labelValues) == [desc |-> desc, value |-> value, labels |-> labelValues]

\* Mutant: the status descriptor is forgotten.
DescribeSeq_noStatus ==
    [i \in 1..Len(metrics) |-> metrics[i].Desc]

\* What Describe sends: each metric's Desc, then the status Desc.
DescribeSeq ==
    [i \in 1..Len(metrics) |-> metrics[i].Desc] \o <<statusMetric.Desc>>

\* The two loops of Collect: one sample per metric, then one per color.
ScalarSamples(chr) ==
    [i \in 1..Len(metrics) |->
        Sample(metrics[i].Desc, MetricValue(metrics[i], chr), <<chr.ClusterName>>)]

StatusSamples(chr) ==
    [i \in 1..Len(colors) |->
        Sample(statusMetric.Desc, StatusValue(chr, colors[i]), <<chr.ClusterName, colors[i]>>)]

\* ------------------------------------------------------------------- state
VARIABLES
    totalScrapesMetric,              \* counter scrapes_total
    totalScrapeErrorsMetric,         \* counter scrape_errors_total
    lastScrapeErrorMetric,           \* gauge last_scrape_error
    lastScrapeTimestampMetric,       \* gauge last_scrape_timestamp
    lastScrapeDurationSecondsMetric, \* gauge last_scrape_duration_seconds
    now,          \* the wall clock, in seconds
    pc,           \* pc[p]: the statement of Collect caller p is about to run
    begun,        \* begun[p], scrapeError[p], err[p], clusterHealthResponse[p]:
    scrapeError,  \*   the locals of caller p's Collect call
    err,
    clusterHealthResponse,
    ch,           \* ch[p]: what caller p's current or last Collect call sent on ch
    descs,        \* what the last Describe call sent on its channel
    started,      \* history: Collect calls entered
    returned,     \* history: Collect calls that returned
    failed,       \* history: Collect calls whose GET did not end "ok"
    gets,         \* history: GET requests issued
    got,          \* history: got[p] is what the GET of caller p's call received
    describes,    \* history: Describe calls made
    overlapped    \* history: some Collect call was entered while another ran

meta == <<totalScrapesMetric, totalScrapeErrorsMetric, lastScrapeErrorMetric,
          lastScrapeTimestampMetric, lastScrapeDurationSecondsMetric>>
locals == <<pc, begun, scrapeError, err, clusterHealthResponse, ch>>
history == <<started, returned, failed, gets, got, describes, overlapped>>
vars == <<meta, now, locals, descs, history>>

Init ==
    /\ totalScrapesMetric = 0
    /\ totalScrapeErrorsMetric = 0
    /\ lastScrapeErrorMetric = 0
    /\ lastScrapeTimestampMetric = 0
    /\ lastScrapeDurationSecondsMetric = 0
    /\ now = 0
    /\ pc = [p \in Callers |-> "idle"]
    /\ begun = [p \in Callers |-> 0]
    /\ scrapeError = [p \in Callers |-> 0]
    /\ err = [p \in Callers |-> FALSE]
    /\ clusterHealthResponse = [p \in Callers |-> ZeroRecord]
    /\ ch = [p \in Callers |-> <<>>]
    /\ descs = <<>>
    /\ started = 0
    /\ returned = 0
    /\ failed = 0
    /\ gets = 0
    /\ got = [p \in Callers |-> NothingYet]
    /\ describes = 0
    /\ overlapped = FALSE

\* Mutant: an increment made while every caller is inside Collect is lost, as
\* with a read and a write that another caller's increment falls between.
Inc_lost(v) == IF \A p \in Callers : pc[p] # "idle" THEN v ELSE v + 1

\* prometheus.Counter.Inc and Gauge.Set: one atomic update of the metric.
Inc(v) == v + 1

Set(v, x) == x

\* Metric.Collect(ch) of a counter or gauge: one sample with its current value.
CollectMetric(name, v) == Sample(name, v, <<>>)

\* --------------------------------------------------------------- Describe
Describe ==
    /\ describes < MaxDescribes
    /\ descs' = DescribeSeq
    /\ describes' = describes + 1
    /\ UNCHANGED <<meta, now, locals, started, returned, failed, gets, got, overlapped>>

\* ---------------------------------------------------------------- Collect
\* begun := time.Now(); scrapeError := 0; c.totalScrapesMetric.Inc()
Begin(p) ==
    /\ pc[p] = "idle"
    /\ begun' = [begun EXCEPT ![p] = now]
    /\ scrapeError' = [scrapeError EXCEPT ![p] = 0]
    /\ totalScrapesMetric' = Inc(totalScrapesMetric)
    /\ err' = [err EXCEPT ![p] = FALSE]
    /\ clusterHealthResponse' = [clusterHealthResponse EXCEPT ![p] = ZeroRecord]
    /\ ch' = [ch EXCEPT ![p] = <<>>]
    /\ started' = started + 1
    /\ got' = [got EXCEPT ![p] = NothingYet]
    /\ overlapped' = (overlapped \/ \E q \in Callers : pc[q] # "idle")
    /\ pc' = [pc EXCEPT ![p] = "fetch"]
    /\ UNCHANGED <<totalScrapeErrorsMetric, lastScrapeErrorMetric, lastScrapeTimestampMetric,
                   lastScrapeDurationSecondsMetric, now, descs, returned, failed, gets,
                   describes>>

\* A registry that gathers from one goroutine: it is the only caller, and it
\* enters Collect only when its previous call has returned.
SeqCaller == 1

BeginSeq ==
    /\ \A q \in Callers : pc[q] = "idle"
    /\ started < MaxScrapes
    /\ Begin(SeqCaller)

\* Callers on several goroutines enter whenever they like.
BeginConc(p) ==
    /\ started < MaxConcScrapes
    /\ Begin(p)

\* clusterHealthResponse, err := c.fetchAndDecodeClusterHealth(), the one GET
\* answered by some response of R.
Fetch(p, R) ==
    /\ pc[p] = "fetch"
    /\ \E resp \in R :
        LET r == fetchAndDecodeClusterHealth(resp)
        IN  /\ clusterHealthResponse' = [clusterHealthResponse EXCEPT ![p] = r.chr]
            /\ err' = [err EXCEPT ![p] = r.err]
            /\ gets' = gets + r.gets
            /\ got' = [got EXCEPT ![p] = Received(resp)]
            /\ failed' = IF Outcome(resp) # "ok" THEN failed + 1 ELSE failed
            /\ pc' = [pc EXCEPT ![p] = IF r.err THEN "onError" ELSE "emit"]
    /\ UNCHANGED <<meta, now, begun, scrapeError, ch, descs, started, returned,
                   describes, overlapped>>

\* Mutant: a failed fetch counts the scrape a second time.
OnError_countsScrape(p) ==
    /\ pc[p] = "onError"
    /\ scrapeError' = [scrapeError EXCEPT ![p] = 1]
    /\ totalScrapeErrorsMetric' = totalScrapeErrorsMetric + 1
    /\ totalScrapesMetric' = totalScrapesMetric + 1
    /\ pc' = [pc EXCEPT ![p] = "emit"]
    /\ UNCHANGED <<lastScrapeErrorMetric, lastScrapeTimestampMetric,
                   lastScrapeDurationSecondsMetric, now, begun, err, clusterHealthResponse,
                   ch, descs, history>>

\* Mutant: a failed fetch ends the call after counting the error.
OnError_returnsEarly(p) ==
    /\ pc[p] = "onError"
    /\ totalScrapeErrorsMetric' = totalScrapeErrorsMetric + 1
    /\ returned' = returned + 1
    /\ begun' = [begun EXCEPT ![p] = 0]
    /\ scrapeError' = [scrapeError EXCEPT ![p] = 0]
    /\ err' = [err EXCEPT ![p] = FALSE]
    /\ pc' = [pc EXCEPT ![p] = "idle"]
    /\ UNCHANGED <<totalScrapesMetric, lastScrapeErrorMetric, lastScrapeTimestampMetric,
                   lastScrapeDurationSecondsMetric, now, clusterHealthResponse,
                   ch, descs, started, failed, gets, got, describes, overlapped>>

\* if err != nil { Warn; scrapeError = 1; c.totalScrapeErrorsMetric.Inc() }
OnError(p) ==
    /\ pc[p] = "onError"
    /\ scrapeError' = [scrapeError EXCEPT ![p] = 1]
    /\ totalScrapeErrorsMetric' = Inc(totalScrapeErrorsMetric)
    /\ pc' = [pc EXCEPT ![p] = "emit"]
    /\ UNCHANGED <<totalScrapesMetric, lastScrapeErrorMetric, lastScrapeTimestampMetric,
                   lastScrapeDurationSecondsMetric, now, begun, err, clusterHealthResponse,
                   ch, descs, history>>

\* The loop over c.metrics and the loop over colors.
Emit(p) ==
    /\ pc[p] = "emit"
    /\ ch' = [ch EXCEPT ![p] = @ \o ScalarSamples(clusterHealthResponse[p])
                                 \o StatusSamples(clusterHealthResponse[p])]
    /\ pc' = [pc EXCEPT ![p] = "collectScrapes"]
    /\ UNCHANGED <<meta, now, begun, scrapeError, err, clusterHealthResponse, descs, history>>

\* c.totalScrapesMetric.Collect(ch)
CollectScrapes(p) ==
    /\ pc[p] = "collectScrapes"
    /\ ch' = [ch EXCEPT ![p] = Append(@, CollectMetric("scrapes_total", totalScrapesMetric))]
    /\ pc' = [pc EXCEPT ![p] = "collectErrors"]
    /\ UNCHANGED <<meta, now, begun, scrapeError, err, clusterHealthResponse, descs, history>>

\* c.totalScrapeErrorsMetric.Collect(ch)
CollectErrors(p) ==
    /\ pc[p] = "collectErrors"
    /\ ch' = [ch EXCEPT ![p] = Append(@, CollectMetric("scrape_errors_total", totalScrapeErrorsMetric))]
    /\ pc' = [pc EXCEPT ![p] = "setLastError"]
    /\ UNCHANGED <<meta, now, begun, scrapeError, err, clusterHealthResponse, descs, history>>

\* Mutant: the gauge is only ever raised, a success does not reset it.
SetLastError_sticky(p) ==
    /\ pc[p] = "setLastError"
    /\ lastScrapeErrorMetric' =
            IF scrapeError[p] > lastScrapeErrorMetric THEN scrapeError[p] ELSE lastScrapeErrorMetric
    /\ pc' = [pc EXCEPT ![p] = "collectLastError"]
    /\ UNCHANGED <<totalScrapesMetric, totalScrapeErrorsMetric, lastScrapeTimestampMetric,
                   lastScrapeDurationSecondsMetric, now, begun, scrapeError, err,
                   clusterHealthResponse, ch, descs, history>>

\* c.lastScrapeErrorMetric.Set(float64(scrapeError))
SetLastError(p) ==
    /\ pc[p] = "setLastError"
    /\ lastScrapeErrorMetric' = Set(lastScrapeErrorMetric, scrapeError[p])
    /\ pc' = [pc EXCEPT ![p] = "collectLastError"]
    /\ UNCHANGED <<totalScrapesMetric, totalScrapeErrorsMetric, lastScrapeTimestampMetric,
                   lastScrapeDurationSecondsMetric, now, begun, scrapeError, err,
                   clusterHealthResponse, ch, descs, history>>

\* c.lastScrapeErrorMetric.Collect(ch)
CollectLastError(p) ==
    /\ pc[p] = "collectLastError"
    /\ ch' = [ch EXCEPT ![p] = Append(@, CollectMetric("last_scrape_error", lastScrapeErrorMetric))]
    /\ pc' = [pc EXCEPT ![p] = "setTimestamp"]
    /\ UNCHANGED <<meta, now, begun, scrapeError, err, clusterHealthResponse, descs, history>>

\* c.lastScrapeTimestampMetric.Set(float64(time.Now().Unix()))
SetTimestamp(p) ==
    /\ pc[p] = "setTimestamp"
    /\ lastScrapeTimestampMetric' = Set(lastScrapeTimestampMetric, now)
    /\ pc' = [pc EXCEPT ![p] = "collectTimestamp"]
    /\ UNCHANGED <<totalScrapesMetric, totalScrapeErrorsMetric, lastScrapeErrorMetric,
                   lastScrapeDurationSecondsMetric, now, begun, scrapeError, err,
                   clusterHealthResponse, ch, descs, history>>

\* c.lastScrapeTimestampMetric.Collect(ch)
CollectTimestamp(p) ==
    /\ pc[p] = "collectTimestamp"
    /\ ch' = [ch EXCEPT ![p] = Append(@, CollectMetric("last_scrape_timestamp", lastScrapeTimestampMetric))]
    /\ pc' = [pc EXCEPT ![p] = "setDuration"]
    /\ UNCHANGED <<meta, now, begun, scrapeError, err, clusterHealthResponse, descs, history>>

\* c.lastScrapeDurationSecondsMetric.Set(time.Since(begun).Seconds())
SetDuration(p) ==
    /\ pc[p] = "setDuration"
    /\ lastScrapeDurationSecondsMetric' = Set(lastScrapeDurationSecondsMetric, now - begun[p])
    /\ pc' = [pc EXCEPT ![p] = "collectDuration"]
    /\ UNCHANGED <<totalScrapesMetric, totalScrapeErrorsMetric, lastScrapeErrorMetric,
                   lastScrapeTimestampMetric, now, begun, scrapeError, err,
                   clusterHealthResponse, ch, descs, history>>

\* c.lastScrapeDurationSecondsMetric.Collect(ch), and Collect returns: its
\* locals are gone, what it sent on ch stays with the receiver.
CollectDuration(p) ==
    /\ pc[p] = "collectDuration"
    /\ ch' = [ch EXCEPT ![p] = Append(@, CollectMetric("last_scrape_duration_seconds",
                                                      lastScrapeDurationSecondsMetric))]
    /\ returned' = returned + 1
    /\ begun' = [begun EXCEPT ![p] = 0]
    /\ scrapeError' = [scrapeError EXCEPT ![p] = 0]
    /\ err' = [err EXCEPT ![p] = FALSE]
    /\ clusterHealthResponse' = [clusterHealthResponse EXCEPT ![p] = ZeroRecord]
    /\ pc' = [pc EXCEPT ![p] = "idle"]
    /\ UNCHANGED <<meta, now, descs, started, failed, gets, got, describes, overlapped>>

\* The statements of Collect after its entry and its fetch.
Body(p) ==
    \/ OnError(p)
    \/ Emit(p)
    \/ CollectScrapes(p)
    \/ CollectErrors(p)
    \/ SetLastError(p)
    \/ CollectLastError(p)
    \/ SetTimestamp(p)
    \/ CollectTimestamp(p)
    \/ SetDuration(p)
    \/ CollectDuration(p)

\* The wall clock advances.
Tick ==
    /\ now < MaxTime
    /\ now' = now + 1
    /\ UNCHANGED <<meta, locals, descs, history>>

Next ==
    \/ BeginSeq
    \/ \E p \in Callers : Fetch(p, Responses)
    \/ \E p \in Callers : Body(p)
    \/ Describe
    \/ Tick

Spec == Init /\ [][Next]_vars

\* Overlapping Collect calls.  Describe reads only the descriptor list, which
\* nothing writes after construction, and is left to Spec.
NextConc ==
    \/ \E p \in Callers : BeginConc(p)
    \/ \E p \in Callers : Fetch(p, ConcResponses)
    \/ \E p \in Callers : Body(p)
    \/ Tick

SpecConc == Init /\ [][NextConc]_vars

\* ------------------------------------------------------------ properties
AllIdle == \A p \in Callers : pc[p] = "idle"

Failures == {"transport", "status", "decode"}

\* The descriptor names of what a caller's call sent, in the order sent.
SentDescs(p) == [i \in 1..Len(ch[p]) |-> ch[p][i].desc]

\* The calls of caller p that have sent their scalar and status samples.
HasEmitted(p) == Len(ch[p]) >= 14

\* C1: every Collect call entered has raised scrapes_total by exactly 1, whether
\* its fetch failed or not, and nothing else changes it: scrapes_total is the
\* number of calls entered, and the number of calls returned once none runs.
C1_ScrapesTotal ==
    /\ totalScrapesMetric = started
    /\ AllIdle => totalScrapesMetric = returned

C1_Witness ==
    /\ AllIdle
    /\ returned = 2
    /\ failed = 1
    /\ describes = 1
    /\ totalScrapesMetric = 2

\* C2: scrape_errors_total is the number of calls whose GET failed in one of the
\* three ways, less the calls that have seen the failure and not yet counted it.
C2_ScrapeErrorsTotal ==
    /\ totalScrapeErrorsMetric = failed - Cardinality({p \in Callers : pc[p] = "onError"})
    /\ AllIdle => totalScrapeErrorsMetric = failed

C2_Witness ==
    /\ AllIdle
    /\ returned = 3
    /\ failed = 2
    /\ got[SeqCaller].outcome = "ok"
    /\ totalScrapeErrorsMetric = 2

\* C3: last_scrape_error is 0 or 1, and once a call has returned it is 1 exactly
\* when that call's GET failed, whatever the calls before it did.
C3_LastScrapeError ==
    /\ lastScrapeErrorMetric \in {0, 1}
    /\ (AllIdle /\ returned > 0) =>
            (lastScrapeErrorMetric = 1 <=> got[SeqCaller].outcome \in Failures)

C3_Witness ==
    /\ AllIdle
    /\ returned = 2
    /\ failed = 1
    /\ got[SeqCaller].outcome = "ok"
    /\ lastScrapeErrorMetric = 0

\* C4 (as claimed): after a GET that failed in any of the three ways, the 11
\* scalar samples and the 3 status samples all have value 0 and the empty
\* cluster label.
C4_ZeroOnFailure ==
    \A p \in Callers :
        (got[p].outcome \in Failures /\ HasEmitted(p)) =>
            \A i \in 1..14 : ch[p][i].value = 0 /\ ch[p][i].labels[1] = ""

\* C5: after a successful GET whose body has status c in {green, yellow, red},
\* the call sends exactly three status samples, one per color, each labelled
\* with the body's cluster name; the one for c is 1 and the other two are 0.
C5_OneHot ==
    \A p \in Callers :
        (got[p].outcome = "ok" /\ got[p].status \in {"green", "yellow", "red"} /\ HasEmitted(p)) =>
            LET st == SelectSeq(ch[p], LAMBDA s : s.desc = "status")
                which == <<"green", "yellow", "red">>
            IN  /\ Len(st) = 3
                /\ \A i \in 1..3 :
                    /\ st[i].labels = <<got[p].cluster, which[i]>>
                    /\ st[i].value = IF which[i] = got[p].status THEN 1 ELSE 0
                /\ st[1].value + st[2].value + st[3].value = 1

C5_Witness ==
    /\ got[SeqCaller].outcome = "ok"
    /\ got[SeqCaller].status = "yellow"
    /\ got[SeqCaller].cluster = "es1"
    /\ pc[SeqCaller] = "idle"
    /\ Len(ch[SeqCaller]) = 19

ExpectedSamples ==
    <<"active_primary_shards", "active_shards", "delayed_unassigned_shards",
      "initializing_shards", "number_of_data_nodes", "number_of_in_flight_fetch",
      "number_of_nodes", "number_of_pending_tasks", "relocating_shards", "timed_out",
      "unassigned_shards", "status", "status", "status", "scrapes_total",
      "scrape_errors_total", "last_scrape_error", "last_scrape_timestamp",
      "last_scrape_duration_seconds">>

\* C6: a call that has returned, after a failed GET as after a successful one,
\* has sent the same 19 samples in the same order (the status samples for green,
\* yellow, red in that order), and a running call has sent a prefix of them.
C6_SampleOrder ==
    \A p \in Callers :
        /\ Len(ch[p]) <= 19
        /\ SentDescs(p) = SubSeq(ExpectedSamples, 1, Len(ch[p]))
        /\ HasEmitted(p) => \A i \in 1..3 : ch[p][11 + i].labels[2] = colors[i]
        /\ (pc[p] = "idle" /\ got[p].outcome # "none") => Len(ch[p]) = 19

C6_Witness ==
    /\ pc[SeqCaller] = "idle"
    /\ got[SeqCaller].outcome = "status"
    /\ returned = 2
    /\ failed = 1
    /\ Len(ch[SeqCaller]) = 19

ExpectedDescs ==
    <<"active_primary_shards", "active_shards", "delayed_unassigned_shards",
      "initializing_shards", "number_of_data_nodes", "number_of_in_flight_fetch",
      "number_of_nodes", "number_of_pending_tasks", "relocating_shards", "timed_out",
      "unassigned_shards", "status">>

\* C7: whatever the collector has done before, Describe has sent the same 12
\* descriptors, each once, and a Describe step issues no GET and leaves the five
\* meta-metrics as they were.
C7_Describe ==
    /\ [](describes > 0 =>
            /\ descs = ExpectedDescs
            /\ Cardinality({descs[i] : i \in 1..Len(descs)}) = 12)
    /\ [][describes' # describes => (meta' = meta /\ gets' = gets)]_vars

C7_Witness ==
    /\ describes = 2
    /\ returned = 2
    /\ failed = 1
    /\ pc[SeqCaller] = "fetch"
    /\ Len(descs) = 12

\* C8: with overlapping calls no counter update is lost: once every call has
\* returned, scrapes_total is the number of calls and scrape_errors_total the
\* number of them whose GET failed; and no step lowers either counter.
C8_NoLostUpdate ==
    /\ [](AllIdle =>
            /\ totalScrapesMetric = returned
            /\ totalScrapeErrorsMetric = failed)
    /\ [][/\ totalScrapesMetric' >= totalScrapesMetric
          /\ totalScrapeErrorsMetric' >= totalScrapeErrorsMetric]_vars

C8_Witness ==
    /\ AllIdle
    /\ overlapped
    /\ returned = 2
    /\ failed = 2
    /\ totalScrapeErrorsMetric = 2

\* C9: every call issues exactly one GET, failed or not: the GETs issued are the
\* calls entered less those that have not fetched yet, and equal scrapes_total
\* once no call runs.
C9_OneGet ==
    /\ gets = started - Cardinality({p \in Callers : pc[p] = "fetch"})
    /\ AllIdle => gets = totalScrapesMetric

C9_Witness ==
    /\ AllIdle
    /\ returned = 3
    /\ failed = 3
    /\ gets = 3

\* C10 (as claimed): with overlapping calls, the last_scrape_error sample a call
\* sends is 1 if its own GET failed and 0 if it succeeded.
C10_OwnLastError ==
    \A p \in Callers :
        Len(ch[p]) >= 17 =>
            ch[p][17].value = IF got[p].outcome \in Failures THEN 1 ELSE 0

====
